---------------------------- MODULE Spec2Model ----------------------------
(***************************************************************************)
(* ConsoleBatch: the headless pipeline execution engine of the scanned-    *)
(* document post-processor.  The repository holds two implementations of   *)
(* the class: src/src/ConsoleBatch_ubuntu_arm64.cpp (variant "arm64") and  *)
(* src/src/ConsoleBatch_ubuntu_arm64_optimized.cpp (variant "optimized").  *)
(* The variant is fixed in the initial state; every operation is modelled  *)
(* from the file of its variant.  The stage setup methods exist only in    *)
(* the arm64 file and are called by the optimized constructors.            *)
(***************************************************************************)
EXTENDS Integers, Sequences, FiniteSets, TLC

(* ------------------------------ bounds --------------------------------- *)

\* Largest page catalog considered.
MaxPages == 3

\* The item budget of the thumbnail cache.  The constructors ask for 40
\* items; the model keeps the eviction policy and a budget small enough for
\* an eviction to happen within the page catalog.
MaxCachedPixmaps == 2

\* The number of stores and hits of the thumbnail cache that are followed.
MaxCacheUses == 6

(* ------------------------- the stage sequence --------------------------- *)

\* Positions of the six stages in the stage sequence.
fixOrientationFilterIdx == 0
pageSplitFilterIdx == 1
deskewFilterIdx == 2
selectContentFilterIdx == 3
pageLayoutFilterIdx == 4
outputFilterIdx == 5

\* StageSequence::lastFilterIdx(): the position of the output stage.
\* (Below, first: a stage sequence that ends with the page layout.)
lastFilterIdxPageLayout == pageLayoutFilterIdx

lastFilterIdx == outputFilterIdx

StageSet ==
    {"fix_orientation", "page_split", "deskew", "select_content",
     "page_layout", "output"}

StageIdx(s) ==
    CASE s = "fix_orientation" -> fixOrientationFilterIdx
      [] s = "page_split"      -> pageSplitFilterIdx
      [] s = "deskew"          -> deskewFilterIdx
      [] s = "select_content"  -> selectContentFilterIdx
      [] s = "page_layout"     -> pageLayoutFilterIdx
      [] s = "output"          -> outputFilterIdx

PageIds == 1 .. MaxPages

\* The page ids 1..n in catalog order.
PagesUpTo(n) == [j \in 1 .. n |-> j]

\* "arm64" or "optimized": which file implements the class.
VARIABLE variant

\* PageId::imageId(): the image a page is a part of.  arm64 works on the
\* page view of the catalog, in which an image that was split contributes
\* its left and its right page: pages 1 and 2 are the two pages of one
\* image, pages 3 and 4 those of the next.  optimized works on the image
\* view, which has one page per image.
imageId(p) == IF variant = "optimized" THEN p ELSE (p + 1) \div 2

\* The pages that are parts of the images of the given pages.
SameImage(pages) ==
    {p \in PageIds : \E q \in pages : imageId(q) = imageId(p)}

(* ------------------------ createCompositeTask --------------------------- *)

\* No task object: the null IntrusivePtr.
NullTask == "null"

\* The six local task pointers, all null.
NoTasks == [s \in StageSet |-> FALSE]

\* The guard of each of the six if-blocks: the stage at position idx is
\* created when last_filter_idx >= idx.
StageRequestedOffByOne(last_filter_idx, idx) == last_filter_idx > idx

StageRequested(last_filter_idx, idx) == last_filter_idx >= idx

\* The continuation argument of a createTask call: the local pointer of the
\* following stage, which is null unless that stage's task was created.
ContinuationDropped(task, next_stage) == NullTask

Continuation(task, next_stage) ==
    IF next_stage # NullTask /\ task[next_stage] THEN next_stage ELSE NullTask

\* (A createTask call handed the id of the catalog's first page instead of
\* the id of the page the chain is built for.)
CreateTaskForFirstPage(acc, last_filter_idx, stage, next_stage, batchFlag, debugFlag) ==
    IF StageRequested(last_filter_idx, StageIdx(stage))
    THEN [acc EXCEPT
            !.task[stage] = TRUE,
            !.created = Append(@,
                [stage |-> stage,
                 page  |-> 1,
                 next  |-> Continuation(acc.task, next_stage),
                 batch |-> batchFlag,
                 debug |-> debugFlag])]
    ELSE acc

\* One if-block of createCompositeTask: when the stage is requested, its
\* filter's createTask is called with the page, the continuation and the
\* two flags, and the local pointer becomes non-null.
CreateTask(acc, last_filter_idx, stage, next_stage, batchFlag, debugFlag) ==
    IF StageRequested(last_filter_idx, StageIdx(stage))
    THEN [acc EXCEPT
            !.task[stage] = TRUE,
            !.created = Append(@,
                [stage |-> stage,
                 page  |-> acc.page,
                 next  |-> Continuation(acc.task, next_stage),
                 batch |-> batchFlag,
                 debug |-> debugFlag])]
    ELSE acc

\* arm64: after a createTask call the member `debug` is cleared.
ClearDebug(acc, last_filter_idx, stage) ==
    IF StageRequested(last_filter_idx, StageIdx(stage))
    THEN [acc EXCEPT !.debug = FALSE]
    ELSE acc

\* arm64 createCompositeTask(page, last_filter_idx), reading and writing the
\* members batch and debug.  fix_orientation's createTask takes no debug
\* argument: it is recorded as receiving debugFlag = FALSE.
CreateCompositeTaskArm64(page, last_filter_idx, batchMember, debugMember) ==
    LET a0 == [page |-> page, task |-> NoTasks, created |-> << >>,
               debug |-> IF batchMember THEN FALSE ELSE debugMember]
        a1 == ClearDebug(
                CreateTask(a0, last_filter_idx, "output", NullTask,
                           batchMember, a0.debug),
                last_filter_idx, "output")
        a2 == ClearDebug(
                CreateTask(a1, last_filter_idx, "page_layout", "output",
                           batchMember, a1.debug),
                last_filter_idx, "page_layout")
        a3 == ClearDebug(
                CreateTask(a2, last_filter_idx, "select_content", "page_layout",
                           batchMember, a2.debug),
                last_filter_idx, "select_content")
        a4 == ClearDebug(
                CreateTask(a3, last_filter_idx, "deskew", "select_content",
                           batchMember, a3.debug),
                last_filter_idx, "deskew")
        a5 == ClearDebug(
                CreateTask(a4, last_filter_idx, "page_split", "deskew",
                           batchMember, a4.debug),
                last_filter_idx, "page_split")
        a6 == ClearDebug(
                CreateTask(a5, last_filter_idx, "fix_orientation", "page_split",
                           batchMember, FALSE),
                last_filter_idx, "fix_orientation")
    IN  [page    |-> page,
         last    |-> last_filter_idx,
         created |-> a6.created,
         root    |-> Continuation(a6.task, "fix_orientation"),
         debug   |-> a6.debug]

\* optimized createCompositeTask(page, last_filter_idx, batch, debug): the
\* two flags are parameters and are handed unchanged to every createTask.
CreateCompositeTaskOptimized(page, last_filter_idx, batchArg, debugArg) ==
    LET a0 == [page |-> page, task |-> NoTasks, created |-> << >>,
               debug |-> debugArg]
        a1 == CreateTask(a0, last_filter_idx, "output", NullTask,
                         batchArg, debugArg)
        a2 == CreateTask(a1, last_filter_idx, "page_layout", "output",
                         batchArg, debugArg)
        a3 == CreateTask(a2, last_filter_idx, "select_content", "page_layout",
                         batchArg, debugArg)
        a4 == CreateTask(a3, last_filter_idx, "deskew", "select_content",
                         batchArg, debugArg)
        a5 == CreateTask(a4, last_filter_idx, "page_split", "deskew",
                         batchArg, debugArg)
        a6 == CreateTask(a5, last_filter_idx, "fix_orientation", "page_split",
                         batchArg, debugArg)
    IN  [page    |-> page,
         last    |-> last_filter_idx,
         created |-> a6.created,
         root    |-> Continuation(a6.task, "fix_orientation"),
         debug   |-> debugArg]

\* arm64: assert(fix_orientation_task) after the six blocks.  The assertion
\* exists only in builds without NDEBUG.
RootAssertFails(chain, ndebugBuild) == chain.root = NullTask /\ ~ndebugBuild

\* The continuation a created task of the chain was given.
NextOf(chain, stage) ==
    LET r == CHOOSE c \in {chain.created[j] : j \in 1 .. Len(chain.created)} :
                 c.stage = stage
    IN  r.next

CreatedStages(chain) ==
    {chain.created[j].stage : j \in 1 .. Len(chain.created)}


(* --------------------------- command line ------------------------------- *)

\* CommandLine::get() with no option given.
CliNone ==
    [isVerbose |-> FALSE,
     hasOrientation |-> FALSE, orientation |-> "TOP",
     hasLayout |-> FALSE, layout |-> "cli_layout",
     hasDeskewAngle |-> FALSE, deskewAngle |-> "cli_angle",
     hasContentRect |-> FALSE, contentRect |-> "cli_rect",
     contentSizeMM |-> "null_size",
     hasMargins |-> FALSE, margins |-> "cli_margins",
     hasOutputDpi |-> FALSE, outputDpi |-> "cli_dpi",
     hasColorMode |-> FALSE, colorMode |-> "BLACK_AND_WHITE",
     hasPictureShape |-> FALSE, pictureShape |-> "cli_shape",
     hasSplittingOptions |-> FALSE,
     hasWhiteMargins |-> FALSE, whiteMargins |-> TRUE,
     hasNormalizeIllumination |-> FALSE, normalizeIllumination |-> TRUE,
     hasThreshold |-> FALSE, threshold |-> "cli_threshold",
     hasDespeckleLevel |-> FALSE, despeckleLevel |-> "cli_despeckle",
     hasDepthPerception |-> FALSE, depthPerception |-> "cli_depth",
     hasDewarpingOptions |-> FALSE]

\* Every override given; the colour mode is MIXED.
CliAll ==
    [isVerbose |-> TRUE,
     hasOrientation |-> TRUE, orientation |-> "LEFT",
     hasLayout |-> TRUE, layout |-> "cli_layout",
     hasDeskewAngle |-> TRUE, deskewAngle |-> "cli_angle",
     hasContentRect |-> TRUE, contentRect |-> "cli_rect",
     contentSizeMM |-> "cli_size",
     hasMargins |-> TRUE, margins |-> "cli_margins",
     hasOutputDpi |-> TRUE, outputDpi |-> "cli_dpi",
     hasColorMode |-> TRUE, colorMode |-> "MIXED",
     hasPictureShape |-> TRUE, pictureShape |-> "cli_shape",
     hasSplittingOptions |-> TRUE,
     hasWhiteMargins |-> TRUE, whiteMargins |-> TRUE,
     hasNormalizeIllumination |-> TRUE, normalizeIllumination |-> TRUE,
     hasThreshold |-> TRUE, threshold |-> "cli_threshold",
     hasDespeckleLevel |-> TRUE, despeckleLevel |-> "cli_despeckle",
     hasDepthPerception |-> TRUE, depthPerception |-> "cli_depth",
     hasDewarpingOptions |-> TRUE]

\* The command lines a batch is run with: no option given, and every
\* option given.
CommandLines == {CliNone, CliAll}

\* The command lines the stage setups are tried with: no override, each
\* single-stage override on its own, every direction of rotation, the
\* content rectangle with and without a target size, every combination of
\* the colour mode (not given, BLACK_AND_WHITE, MIXED) with the picture
\* shape, the splitting options and the remaining output overrides, every
\* override at once, and two mixtures.
CommandLinesSetup ==
    {CliNone, CliAll,
     [CliNone EXCEPT !.isVerbose = TRUE, !.hasOrientation = TRUE,
                     !.orientation = "UPSIDEDOWN", !.hasDeskewAngle = TRUE],
     [CliAll EXCEPT !.orientation = "RIGHT", !.colorMode = "COLOR_GRAYSCALE",
                    !.contentSizeMM = "null_size", !.isVerbose = FALSE],
     [CliNone EXCEPT !.hasOrientation = TRUE, !.orientation = "LEFT"],
     [CliNone EXCEPT !.hasLayout = TRUE],
     [CliNone EXCEPT !.hasDeskewAngle = TRUE],
     [CliNone EXCEPT !.hasContentRect = TRUE],
     [CliNone EXCEPT !.hasContentRect = TRUE, !.contentSizeMM = "cli_size"],
     [CliNone EXCEPT !.hasMargins = TRUE]}
    \cup
    {[CliNone EXCEPT
        !.hasColorMode = mode # "none",
        !.colorMode = IF mode = "none" THEN "BLACK_AND_WHITE" ELSE mode,
        !.hasPictureShape = shape,
        !.hasSplittingOptions = splitting,
        !.hasOutputDpi = others,
        !.hasWhiteMargins = others,
        !.hasNormalizeIllumination = others,
        !.hasThreshold = others,
        !.hasDespeckleLevel = others,
        !.hasDepthPerception = others,
        !.hasDewarpingOptions = others] :
      mode \in {"none", "BLACK_AND_WHITE", "MIXED"},
      shape \in BOOLEAN, splitting \in BOOLEAN, others \in BOOLEAN}

(* -------------------------- settings stores ----------------------------- *)

\* OrthogonalRotation, in degrees clockwise.
nextClockwiseDirection(deg) == (deg + 90) % 360

prevClockwiseDirection(deg) == (deg + 270) % 360

\* output::Params of a page nobody configured.
DefaultParams ==
    [outputDpi |-> "default_dpi",
     colorMode |-> "BLACK_AND_WHITE",
     splitOutput |-> FALSE,
     pictureShape |-> "default_shape",
     cliSplitting |-> FALSE,
     whiteMargins |-> FALSE,
     normalizeIllumination |-> FALSE,
     threshold |-> "default_threshold",
     despeckleLevel |-> "default_despeckle",
     depthPerception |-> "default_depth",
     cliDewarping |-> FALSE]

\* The six settings stores of a freshly built StageSequence: every page
\* reads as its stage's defaults.
DefaultSettings ==
    [fix_orientation |-> [p \in PageIds |-> 0],
     page_split      |-> [p \in PageIds |-> "AUTO_LAYOUT"],
     deskew          |-> [p \in PageIds |->
                            [present |-> FALSE, mode |-> "MODE_AUTO",
                             angle |-> "auto_angle"]],
     select_content  |-> [p \in PageIds |->
                            [mode |-> "MODE_AUTO", box |-> "auto_box",
                             targetSize |-> "auto_size"]],
     page_layout     |-> [p \in PageIds |-> "default_margins"],
     output          |-> [p \in PageIds |-> DefaultParams]]

\* output::Params of a page that was configured by hand.
EditedParams ==
    [outputDpi |-> "file_dpi",
     colorMode |-> "COLOR_GRAYSCALE",
     splitOutput |-> TRUE,
     pictureShape |-> "file_shape",
     cliSplitting |-> FALSE,
     whiteMargins |-> FALSE,
     normalizeIllumination |-> FALSE,
     threshold |-> "file_threshold",
     despeckleLevel |-> "file_despeckle",
     depthPerception |-> "file_depth",
     cliDewarping |-> FALSE]

\* The six settings stores with the pages of the set configured by hand in
\* every stage, and the other pages at their defaults.  The rotation is
\* stored per image, so the pages of one image have the same.
EditedSettings(pages) ==
    [fix_orientation |-> [p \in PageIds |->
        IF p \in SameImage(pages) THEN 90
        ELSE DefaultSettings.fix_orientation[p]],
     page_split |-> [p \in PageIds |->
        IF p \in pages THEN "file_layout" ELSE DefaultSettings.page_split[p]],
     deskew |-> [p \in PageIds |->
        IF p \in pages
        THEN [present |-> TRUE, mode |-> "MODE_MANUAL", angle |-> "file_angle"]
        ELSE DefaultSettings.deskew[p]],
     select_content |-> [p \in PageIds |->
        IF p \in pages
        THEN [mode |-> "MODE_MANUAL", box |-> "file_box",
              targetSize |-> "file_size"]
        ELSE DefaultSettings.select_content[p]],
     page_layout |-> [p \in PageIds |->
        IF p \in pages THEN "file_margins"
        ELSE DefaultSettings.page_layout[p]],
     output |-> [p \in PageIds |->
        IF p \in pages THEN EditedParams ELSE DefaultSettings.output[p]]]

\* The settings stores a stage sequence may hold when a setup is called:
\* nothing configured, every page configured, the first page configured.
StoreStates == {DefaultSettings, EditedSettings(PageIds), EditedSettings({1})}

\* The rotation setupFixOrientation computes for every page.
CliRotation(c) ==
    IF c.hasOrientation
    THEN CASE c.orientation = "LEFT"  -> prevClockwiseDirection(0)
           [] c.orientation = "RIGHT" -> nextClockwiseDirection(0)
           [] c.orientation = "UPSIDEDOWN" ->
                  nextClockwiseDirection(nextClockwiseDirection(0))
           [] OTHER -> 0
    ELSE 0

\* (A setup that turns the page's stored rotation by the given one.)
setupFixOrientationRelative(st, c, allPages) ==
    [st EXCEPT !.fix_orientation =
        [p \in PageIds |->
            IF p \in SameImage(allPages)
            THEN (@[p] + CliRotation(c)) % 360 ELSE @[p]]]

\* setupFixOrientation: applyRotation(page_id.imageId(), rotation) for every
\* page of the set, whether or not an orientation was given.  The store is
\* keyed by image: the rotation written for a page is the one every page of
\* its image reads.
setupFixOrientation(st, c, allPages) ==
    [st EXCEPT !.fix_orientation =
        [p \in PageIds |->
            IF p \in SameImage(allPages) THEN CliRotation(c) ELSE @[p]]]

\* setupPageSplit: setLayoutTypeForAllPages when a layout was given.
setupPageSplit(st, c, allPages) ==
    IF c.hasLayout
    THEN [st EXCEPT !.page_split = [p \in PageIds |-> c.layout]]
    ELSE st

\* setupDeskew: setPageAngle when an angle was given; otherwise
\* applyToPageId(page, deps, MODE_AUTO), which leaves a page that already
\* has settings alone (MATCH_FOUND) and records automatic mode for the rest.
setupDeskew(st, c, allPages) ==
    [st EXCEPT !.deskew =
        [p \in PageIds |->
            IF p \notin allPages THEN @[p]
            ELSE IF c.hasDeskewAngle
                 THEN [@[p] EXCEPT !.present = TRUE, !.angle = c.deskewAngle]
                 ELSE IF @[p].present THEN @[p]
                      ELSE [@[p] EXCEPT !.present = TRUE,
                                        !.mode = "MODE_AUTO"]]]

\* (A setup that stores the given target size without testing it.)
setupSelectContentSizeAlways(st, c, allPages) ==
    [st EXCEPT !.select_content =
        [p \in PageIds |->
            IF p \in allPages /\ c.hasContentRect
            THEN [mode |-> "MODE_MANUAL",
                  box |-> c.contentRect,
                  targetSize |-> c.contentSizeMM]
            ELSE @[p]]]

\* setupSelectContent: manual mode, the given box and, unless it is null,
\* the given target size, when a content rectangle was given.
setupSelectContent(st, c, allPages) ==
    [st EXCEPT !.select_content =
        [p \in PageIds |->
            IF p \in allPages /\ c.hasContentRect
            THEN [mode |-> "MODE_MANUAL",
                  box |-> c.contentRect,
                  targetSize |-> IF c.contentSizeMM # "null_size"
                                 THEN c.contentSizeMM
                                 ELSE @[p].targetSize]
            ELSE @[p]]]

\* setupPageLayout: setHardMarginsMM when margins were given.
setupPageLayout(st, c, allPages) ==
    [st EXCEPT !.page_layout =
        [p \in PageIds |->
            IF p \in allPages /\ c.hasMargins THEN c.margins ELSE @[p]]]

\* (A loop body that applies the picture shape whatever the colour mode.)
OutputParamsShapeAnyMode(params, c) ==
    LET p1 == IF c.hasOutputDpi
              THEN [params EXCEPT !.outputDpi = c.outputDpi] ELSE params
        p2 == IF c.hasColorMode
              THEN [p1 EXCEPT !.colorMode = c.colorMode] ELSE p1
        p3 == IF c.hasPictureShape
              THEN [p2 EXCEPT !.splitOutput = TRUE,
                              !.pictureShape = c.pictureShape]
              ELSE p2
        p4 == IF c.hasColorMode /\ c.colorMode = "MIXED"
                 /\ c.hasSplittingOptions
              THEN [p3 EXCEPT !.cliSplitting = TRUE] ELSE p3
        p5 == IF c.hasWhiteMargins
              THEN [p4 EXCEPT !.whiteMargins = c.whiteMargins] ELSE p4
        p6 == IF c.hasNormalizeIllumination
              THEN [p5 EXCEPT !.normalizeIllumination =
                                  c.normalizeIllumination]
              ELSE p5
        p7 == IF c.hasThreshold
              THEN [p6 EXCEPT !.threshold = c.threshold] ELSE p6
        p8 == IF c.hasDespeckleLevel
              THEN [p7 EXCEPT !.despeckleLevel = c.despeckleLevel] ELSE p7
        p9 == IF c.hasDepthPerception
              THEN [p8 EXCEPT !.depthPerception = c.depthPerception] ELSE p8
    IN  IF c.hasDewarpingOptions
        THEN [p9 EXCEPT !.cliDewarping = TRUE] ELSE p9

\* The body of setupOutput's loop: the page's params with every given
\* override applied.
OutputParams(params, c) ==
    LET p1 == IF c.hasOutputDpi
              THEN [params EXCEPT !.outputDpi = c.outputDpi] ELSE params
        p2 == IF c.hasColorMode
              THEN [p1 EXCEPT !.colorMode = c.colorMode] ELSE p1
        p3 == IF c.hasColorMode /\ c.colorMode = "MIXED" /\ c.hasPictureShape
              THEN [p2 EXCEPT !.splitOutput = TRUE,
                              !.pictureShape = c.pictureShape]
              ELSE p2
        p4 == IF c.hasColorMode /\ c.colorMode = "MIXED"
                 /\ c.hasSplittingOptions
              THEN [p3 EXCEPT !.cliSplitting = TRUE] ELSE p3
        p5 == IF c.hasWhiteMargins
              THEN [p4 EXCEPT !.whiteMargins = c.whiteMargins] ELSE p4
        p6 == IF c.hasNormalizeIllumination
              THEN [p5 EXCEPT !.normalizeIllumination =
                                  c.normalizeIllumination]
              ELSE p5
        p7 == IF c.hasThreshold
              THEN [p6 EXCEPT !.threshold = c.threshold] ELSE p6
        p8 == IF c.hasDespeckleLevel
              THEN [p7 EXCEPT !.despeckleLevel = c.despeckleLevel] ELSE p7
        p9 == IF c.hasDepthPerception
              THEN [p8 EXCEPT !.depthPerception = c.depthPerception] ELSE p8
    IN  IF c.hasDewarpingOptions
        THEN [p9 EXCEPT !.cliDewarping = TRUE] ELSE p9

\* setupOutput: getParams, the overrides, setParams, for every page.
setupOutput(st, c, allPages) ==
    [st EXCEPT !.output =
        [p \in PageIds |->
            IF p \in allPages THEN OutputParams(@[p], c) ELSE @[p]]]

\* (A dispatch whose page-layout branch runs on into the output setup.)
setupFilterRunsOn(st, c, idx, allPages) ==
    CASE idx = fixOrientationFilterIdx -> setupFixOrientation(st, c, allPages)
      [] idx = pageSplitFilterIdx      -> setupPageSplit(st, c, allPages)
      [] idx = deskewFilterIdx         -> setupDeskew(st, c, allPages)
      [] idx = selectContentFilterIdx  -> setupSelectContent(st, c, allPages)
      [] idx = pageLayoutFilterIdx     ->
             setupOutput(setupPageLayout(st, c, allPages), c, allPages)
      [] idx = outputFilterIdx         -> setupOutput(st, c, allPages)
      [] OTHER -> st

\* setupFilter(idx, allPages): the setup of the stage at position idx, and
\* nothing for an idx that is no stage's position.
setupFilter(st, c, idx, allPages) ==
    CASE idx = fixOrientationFilterIdx -> setupFixOrientation(st, c, allPages)
      [] idx = pageSplitFilterIdx      -> setupPageSplit(st, c, allPages)
      [] idx = deskewFilterIdx         -> setupDeskew(st, c, allPages)
      [] idx = selectContentFilterIdx  -> setupSelectContent(st, c, allPages)
      [] idx = pageLayoutFilterIdx     -> setupPageLayout(st, c, allPages)
      [] idx = outputFilterIdx         -> setupOutput(st, c, allPages)
      [] OTHER -> st

\* The six setups in the order the optimized constructors call them.
SetupAllStages(st, c, allPages) ==
    setupOutput(
      setupPageLayout(
        setupSelectContent(
          setupDeskew(
            setupPageSplit(
              setupFixOrientation(st, c, allPages), c, allPages),
            c, allPages),
          c, allPages),
        c, allPages),
      c, allPages)

\* toPageSequence(view) as a set of page ids (the std::set<PageId> the
\* constructors build).
PageIdSet(pages) == {pages[j] : j \in 1 .. Len(pages)}


(* ---------------------------- project files ----------------------------- *)

\* A project file on disk: whether QFile::open succeeds, whether
\* QDomDocument::setContent accepts it, and what a reader finds in it.
ProjectFiles ==
    {f \in [openable : BOOLEAN, wellFormed : BOOLEAN,
            outputDirectory : {"", "out_dir"}, numPages : 0 .. MaxPages,
            edited : BOOLEAN] :
        (~f.openable \/ ~f.wellFormed) =>
            (f.outputDirectory = "" /\ f.numPages = 0 /\ ~f.edited /\
             (~f.openable => ~f.wellFormed))}

\* The project files loadProject is tried with while a batch is in use:
\* the unreadable ones, and the well-formed ones of one page that nobody
\* edited, with and without an output directory.
LoadFiles ==
    {f \in ProjectFiles :
        ~f.edited /\ (f.openable /\ f.wellFormed => f.numPages = 1)}

\* The per-page settings a project file holds: those of a project nobody
\* edited, or those of one whose pages were rotated, given margins and
\* deskewed by hand.
FileSettings(f) ==
    IF f.edited
    THEN [DefaultSettings EXCEPT
            !.fix_orientation = [p \in PageIds |-> 90],
            !.deskew = [p \in PageIds |->
                          [present |-> TRUE, mode |-> "MODE_MANUAL",
                           angle |-> "file_angle"]],
            !.page_layout = [p \in PageIds |-> "file_margins"]]
    ELSE DefaultSettings

\* QFile::open(ReadOnly).
FileOpensAlways(f) == TRUE

FileOpens(f) == f.openable

\* QDomDocument::setContent(&file): a file that cannot be read has no
\* content to accept.
DocSetContent(f) == f.openable /\ f.wellFormed

\* arm64 project constructor: output_directory.isEmpty().
OutputDirectoryIsEmpty(dir) == dir = ""

\* optimized: ProjectReader::readProject.  The reader's contract: it fails
\* with a structural error on a document that is not well-formed or names
\* no output directory.  (The arm64 constructor reads the directory from
\* its reader and rejects an empty one itself.)
\* (Below, first: a reader that accepts a project without a directory.)
readProjectAcceptsNoDirectory(f) == ~DocSetContent(f)

readProjectFails(f) == ~DocSetContent(f) \/ f.outputDirectory = ""

\* How a failing readProject tells its caller: it hands back a null page
\* catalog, which the caller tests for, or it throws its own error, which
\* the caller lets through.
ReaderFailures == {"null_pages", "throws"}

\* The ways readProject can end that are worth telling apart for a file:
\* both failures for a file it fails on, and one value for any other file,
\* where the way is never looked at.
ReaderWays(f) ==
    IF DocSetContent(f) /\ readProjectFails(f)
    THEN ReaderFailures ELSE {"null_pages"}

\* The message of the reader's own exception.
ErrReader == "reader: structural error"

\* Null smart pointer, and a pointer to x.
Null == << >>

Ptr(x) == << x >>

(* ------------------------------- state ---------------------------------- *)

VARIABLES
    ndebugBuild,    \* whether the build defines NDEBUG (assert compiled out)
    cli,            \* CommandLine::get()
    pc,             \* where the program is
    err,            \* the message of the last exception a call ended with
    batch,          \* member batch
    debug,          \* member debug (arm64)
    m_debug,        \* member m_debug (optimized)
    m_ptrPages,     \* Null or Ptr(the page catalog)
    m_ptrStages,    \* Null or Ptr(the six settings stores)
    m_outDir,       \* member m_outDir (optimized)
    outFileNameGen, \* Null or Ptr(directory of the OutputFileNameGenerator)
    m_ptrThumbnailCache, \* Null or Ptr(directory of the thumbnail cache)
    relinked,       \* performRelinking has run on the stage sequence
    configured,     \* the stages whose setup has run on the stage sequence
    source,         \* what the last constructor or loadProject call was given
    page_sequence,  \* process(): the snapshot taken at its start
    attempted,      \* process(): the pages whose iteration has begun
    processed,      \* process(): the counter `processed` (optimized)
    results,        \* the outcome of each finished iteration, in order
    chain,          \* Null or Ptr(the composite task a local holds)
    cursor,         \* the task of the chain that runs next
    executed,       \* the stages of the running chain that have run
    log,            \* process(): the progress lines this call has printed
    summary,        \* Null or Ptr(the final summary printed)
    outer,          \* the process() calls suspended in processEvents()
    saved,          \* Null or Ptr(the document the last saveProject wrote)
    thumbs,         \* the keys the thumbnail cache holds, eviction order
    lastUse         \* for each key, when it was last stored or found (0: never)

vars ==
    << variant, ndebugBuild, cli, pc, err, batch, debug, m_debug, m_ptrPages,
       m_ptrStages, m_outDir, outFileNameGen, m_ptrThumbnailCache, relinked,
       configured, source, page_sequence, attempted, processed, results, chain,
       cursor, executed, log, summary, outer, saved, thumbs, lastUse >>

buildVars == << variant, ndebugBuild, cli >>

fileVars == << saved >>

cacheVars == << thumbs, lastUse >>

\* No key was ever stored in the cache.
NeverUsed == [k \in PageIds |-> 0]

objectVars ==
    << batch, debug, m_debug, m_ptrPages, m_ptrStages, m_outDir,
       outFileNameGen, m_ptrThumbnailCache, relinked, configured >>

callVars == << source >>

runVars ==
    << page_sequence, attempted, processed, results, log, summary, outer >>

chainVars == << chain, cursor, executed >>

NoSource == [kind |-> "none"]

\* Before any constructor has run.  m_debug is initialised by no
\* constructor: it holds either value.  NDEBUG matters to the arm64 file
\* alone: the asserts of the optimized file test the task a createTask
\* call has just returned, which is never null here.
Init ==
    /\ variant \in {"arm64", "optimized"}
    /\ ndebugBuild \in (IF variant = "arm64" THEN BOOLEAN ELSE {FALSE})
    /\ cli \in CommandLines
    /\ pc = "new"
    /\ err = ""
    /\ batch = TRUE
    /\ debug = TRUE
    /\ m_debug \in (IF variant = "optimized" THEN BOOLEAN ELSE {FALSE})
    /\ m_ptrPages = Null
    /\ m_ptrStages = Null
    /\ m_outDir = ""
    /\ outFileNameGen = Null
    /\ m_ptrThumbnailCache = Null
    /\ relinked = FALSE
    /\ configured = {}
    /\ source = NoSource
    /\ page_sequence = << >>
    /\ attempted = << >>
    /\ processed = 0
    /\ results = << >>
    /\ chain = Null
    /\ cursor = NullTask
    /\ executed = << >>
    /\ log = << >>
    /\ summary = Null
    /\ outer = << >>
    /\ saved = Null
    /\ thumbs = << >>
    /\ lastUse = NeverUsed

\* process() has returned, or has thrown to its caller: the object is
\* still there and its member functions can be called.
Returned == {"done", "failed", "threw", "not_initialized"}

\* process() is between two iterations of its loop, or after the last one:
\* at the top of the loop ("loop"), or inside the
\* QCoreApplication::processEvents() call that ends an iteration of the
\* optimized loop ("events").
BetweenPages(p) == p \in {"loop", "events"}

\* An object exists and no member function of it is running.
NotRunning(p) == p = "ready" \/ p \in Returned

\* How many calls of process() made by handlers are followed inside one
\* another: a handler that processEvents() dispatches may call process(),
\* whose loop calls processEvents() again.
MaxNested == 1

\* What a call of process() suspended in processEvents() holds on its
\* stack: the snapshot, the position in it, the counter, and the task of
\* the page it has just handled, which the local of the try block keeps
\* alive.
Frame ==
    [page_sequence |-> page_sequence, attempted |-> attempted,
     processed |-> processed, results |-> results, log |-> log,
     chain |-> chain]

\* A call of process() made by a handler has returned or thrown, and
\* control is on its way back into the processEvents() call of the run that
\* waits for it.
NestedEnded == pc \in Returned /\ outer # << >>

\* The caller, or a handler that processEvents() dispatches, can enter a
\* member function.
CanCall == ~NestedEnded

\* A member function can be entered: by the caller while none is running,
\* and by a handler that processEvents() dispatches while the optimized
\* process() waits for it to return.  The class starts no thread and the
\* arm64 process() never returns to the event loop.
IdleOrLooping(p) == NotRunning(p) \/ p \in {"events", "loop"}

Idle(p) == NotRunning(p) \/ p = "events"

\* Where the program is when a member function other than process() has
\* returned: back in its caller, or back in processEvents().
Resume(p) == IF p \in Returned THEN "ready" ELSE p

\* Where the program can be when such a member function has thrown.  The
\* exception reaches the handler that made the call: a handler that catches
\* it leaves control in processEvents(); one that lets it go sends it out
\* of processEvents() into the catch blocks of the loop, and the loop goes
\* on with the next page.
AfterThrow(p) == IF p = "events" THEN {"events", "loop"} ELSE {Resume(p)}

\* The task of the iteration that waits in processEvents() is a local of
\* the try block: it lives on while control stays there and is destroyed
\* when an exception unwinds the block.
KeepOrUnwindTask ==
    /\ chain' = IF pc = "events" /\ pc' = "loop" THEN Null ELSE chain
    /\ UNCHANGED << cursor, executed >>

\* The variables of process() describe the call in progress, or the one
\* that has just ended; the next call made on the object leaves the record
\* of an ended call behind.
DropEndedRun ==
    /\ page_sequence' = IF pc \in Returned THEN << >> ELSE page_sequence
    /\ attempted' = IF pc \in Returned THEN << >> ELSE attempted
    /\ processed' = IF pc \in Returned THEN 0 ELSE processed
    /\ results' = IF pc \in Returned THEN << >> ELSE results
    /\ log' = IF pc \in Returned THEN << >> ELSE log
    /\ summary' = IF pc \in Returned THEN Null ELSE summary
    /\ UNCHANGED outer

(* ----------------------------- constructors ----------------------------- *)

\* ConsoleBatch(images, output_directory, layout).  arm64 builds the pages,
\* the stage sequence, the cache and the file name generator; optimized
\* also runs the six stage setups over all pages.
ConstructFromImages(n, dir) ==
    /\ pc = "new"
    /\ pc' = "ready"
    /\ source' = [kind |-> "images", numPages |-> n, outputDirectory |-> dir]
    /\ m_ptrPages' = Ptr(PagesUpTo(n))
    /\ m_ptrStages' =
          IF variant = "optimized"
          THEN Ptr(SetupAllStages(DefaultSettings, cli,
                                  PageIdSet(PagesUpTo(n))))
          ELSE Ptr(DefaultSettings)
    /\ outFileNameGen' = Ptr(dir)
    /\ m_ptrThumbnailCache' = Ptr(dir)
    /\ configured' = IF variant = "optimized" THEN StageSet ELSE {}
    /\ UNCHANGED << buildVars, fileVars, cacheVars, err, batch, debug,
                    m_debug, m_outDir, relinked, runVars, chainVars >>

\* A constructor that ended with an exception: no object exists.
ConstructorThrows(f, message) ==
    /\ pc' = "ctor_failed"
    /\ err' = message
    /\ source' = [kind |-> "project", file |-> f]
    /\ UNCHANGED << buildVars, fileVars, cacheVars, objectVars, runVars,
                    chainVars >>

\* arm64 ConsoleBatch(project_file).
ConstructFromProjectArm64(f) ==
    /\ pc = "new"
    /\ variant = "arm64"
    /\ IF ~FileOpens(f)
       THEN ConstructorThrows(f, "Unable to open the project file.")
       ELSE IF ~DocSetContent(f)
       THEN ConstructorThrows(f, "The project file is broken.")
       ELSE IF OutputDirectoryIsEmpty(f.outputDirectory)
       THEN \* pages and stages were assigned and relinked before the throw
            /\ pc' = "ctor_failed"
            /\ err' = "Output directory is not set."
            /\ source' = [kind |-> "project", file |-> f]
            /\ m_ptrPages' = Ptr(PagesUpTo(f.numPages))
            /\ m_ptrStages' = Ptr(DefaultSettings)
            /\ relinked' = TRUE
            /\ UNCHANGED << buildVars, fileVars, cacheVars, batch, debug,
                            m_debug, m_outDir, outFileNameGen,
                            m_ptrThumbnailCache, configured, runVars,
                            chainVars >>
       ELSE /\ pc' = "ready"
            /\ source' = [kind |-> "project", file |-> f]
            /\ m_ptrPages' = Ptr(PagesUpTo(f.numPages))
            /\ m_ptrStages' = Ptr(DefaultSettings)
            /\ relinked' = TRUE
            /\ outFileNameGen' = Ptr(f.outputDirectory)
            /\ m_ptrThumbnailCache' = Ptr(f.outputDirectory)
            /\ UNCHANGED << buildVars, fileVars, cacheVars, err, batch, debug,
                            m_debug, m_outDir, configured, runVars,
                            chainVars >>

\* optimized ConsoleBatch(project_file).  readProject fills the pages, the
\* disambiguator and the local output_dir; the stage sequence is built
\* after it and set up; m_outDir is not assigned.
ConstructFromProjectOptimized(f, how) ==
    /\ pc = "new"
    /\ variant = "optimized"
    /\ IF ~FileOpens(f)
       THEN ConstructorThrows(f, "Unable to open project file for reading")
       ELSE IF ~DocSetContent(f)
       THEN ConstructorThrows(f, "Project file is not a valid XML document")
       ELSE IF readProjectFails(f)
       THEN IF how = "throws"
            THEN ConstructorThrows(f, ErrReader)
            ELSE ConstructorThrows(f, "Failed to load project pages")
       ELSE /\ pc' = "ready"
            /\ source' = [kind |-> "project", file |-> f]
            /\ m_ptrPages' = Ptr(PagesUpTo(f.numPages))
            /\ m_ptrStages' =
                  Ptr(SetupAllStages(DefaultSettings, cli,
                                     PageIdSet(PagesUpTo(f.numPages))))
            /\ outFileNameGen' = Ptr(f.outputDirectory)
            /\ m_ptrThumbnailCache' = Ptr("project_dir/cache")
            /\ configured' = StageSet
            /\ UNCHANGED << buildVars, fileVars, cacheVars, err, batch, debug,
                            m_debug, m_outDir, relinked, runVars, chainVars >>

\* optimized loadProject(project_file) on an existing object.  readProject
\* is handed the members m_ptrPages, m_ptrDisambiguator and m_outDir; the
\* catalog is tested only after it, so a reader that hands back a null
\* catalog leaves the object without one.
LoadProject(f, how) ==
    /\ Idle(pc)
    /\ CanCall
    /\ variant = "optimized"
    /\ source' = [kind |-> "load", file |-> f]
    /\ IF ~FileOpens(f)
       THEN /\ err' = "Unable to open project file for reading"
            /\ pc' \in AfterThrow(pc)
            /\ UNCHANGED << m_ptrPages, m_ptrStages, m_outDir,
                            m_ptrThumbnailCache, configured, cacheVars >>
       ELSE IF ~DocSetContent(f)
       THEN /\ err' = "Project file is not a valid XML document"
            /\ pc' \in AfterThrow(pc)
            /\ UNCHANGED << m_ptrPages, m_ptrStages, m_outDir,
                            m_ptrThumbnailCache, configured, cacheVars >>
       ELSE IF readProjectFails(f) /\ how = "throws"
       THEN /\ err' = ErrReader
            /\ pc' \in AfterThrow(pc)
            /\ UNCHANGED << m_ptrPages, m_ptrStages, m_outDir,
                            m_ptrThumbnailCache, configured, cacheVars >>
       ELSE IF readProjectFails(f)
       THEN /\ err' = "Failed to load project pages"
            /\ pc' \in AfterThrow(pc)
            /\ m_ptrPages' = Null
            /\ UNCHANGED << m_ptrStages, m_outDir, m_ptrThumbnailCache,
                            configured, cacheVars >>
       ELSE /\ err' = ""
            /\ pc' = Resume(pc)
            /\ m_ptrPages' = Ptr(PagesUpTo(f.numPages))
            /\ m_outDir' = f.outputDirectory
            /\ m_ptrStages' = Ptr(DefaultSettings)
            /\ m_ptrThumbnailCache' = Ptr("project_dir/cache")
            /\ configured' = {}
            /\ thumbs' = << >>
            /\ lastUse' = NeverUsed
    /\ DropEndedRun
    /\ KeepOrUnwindTask
    /\ UNCHANGED << buildVars, fileVars, batch, debug, m_debug,
                    outFileNameGen, relinked >>


(* ------------------------- small public methods ------------------------- *)

\* optimized setDebugMode(debug).
SetDebugMode(b) ==
    /\ Idle(pc)
    /\ CanCall
    /\ variant = "optimized"
    /\ m_debug' = b
    /\ pc' = Resume(pc)
    /\ DropEndedRun
    /\ UNCHANGED << buildVars, fileVars, cacheVars, err, batch, debug,
                    m_ptrPages, m_ptrStages, m_outDir, outFileNameGen,
                    m_ptrThumbnailCache, relinked, configured, callVars,
                    chainVars >>

\* arm64 setupFilter(idx, allPages), called with the pages of the catalog.
\* (The optimized file has no setupFilter: its constructors run the six
\* setups themselves.)
SetupFilter(idx) ==
    /\ Idle(pc)
    /\ variant = "arm64"
    /\ m_ptrStages # Null /\ m_ptrPages # Null
    /\ m_ptrStages' =
          Ptr(setupFilter(m_ptrStages[1], cli, idx, PageIdSet(m_ptrPages[1])))
    /\ configured' = configured \cup {s \in StageSet : StageIdx(s) = idx}
    /\ pc' = Resume(pc)
    /\ DropEndedRun
    /\ UNCHANGED << buildVars, fileVars, cacheVars, err, batch, debug,
                    m_debug, m_ptrPages, m_outDir, outFileNameGen,
                    m_ptrThumbnailCache, relinked, callVars, chainVars >>

\* The document a ProjectWriter produces from a page catalog, the settings
\* stores of the stage sequence and the output directory it is given.
WrittenDocument(pages, stores, dir) ==
    [numPages |-> Len(pages), settings |-> stores, outputDirectory |-> dir]

\* saveProject(project_file).  optimized refuses an object without pages or
\* stages, writes the member m_outDir and fails on a file it cannot open for
\* writing.  arm64 hands the writer the pages and the filters, and no
\* output directory.
SaveProject(writable) ==
    /\ Idle(pc)
    /\ CanCall
    /\ IF variant = "optimized"
       THEN IF m_ptrPages = Null \/ m_ptrStages = Null
            THEN /\ err' = "No project to save"
                 /\ pc' \in AfterThrow(pc)
                 /\ saved' = saved
            ELSE IF ~writable
            THEN /\ err' = "Unable to open project file for writing"
                 /\ pc' \in AfterThrow(pc)
                 /\ saved' = saved
            ELSE /\ err' = err
                 /\ pc' = Resume(pc)
                 /\ saved' = Ptr(WrittenDocument(m_ptrPages[1], m_ptrStages[1],
                                                 m_outDir))
       ELSE /\ m_ptrPages # Null /\ m_ptrStages # Null
            /\ writable
            /\ err' = err
            /\ pc' = Resume(pc)
            /\ saved' = Ptr(WrittenDocument(m_ptrPages[1], m_ptrStages[1], ""))
    /\ DropEndedRun
    /\ KeepOrUnwindTask
    /\ UNCHANGED << buildVars, cacheVars, objectVars, callVars >>

(* --------------------------- thumbnail cache ---------------------------- *)

\* The keys of a sequence.
Keys(seq) == {seq[j] : j \in 1 .. Len(seq)}

\* The sequence without the key.
Without(seq, k) == SelectSeq(seq, LAMBDA x : x # k)

\* The time of the cache's latest store or hit.
Clock(uses) == CHOOSE t \in 0 .. MaxCacheUses :
                   /\ \A k \in PageIds : uses[k] <= t
                   /\ \E k \in PageIds : uses[k] = t

\* A lookup: a key the cache holds is found and becomes the most recently
\* used; a key it does not hold is absent and nothing changes.
CacheLookupNoRefresh(held, k) == held

CacheLookup(held, k) ==
    IF k \in Keys(held) THEN Append(Without(held, k), k) ELSE held

\* An insertion: the key becomes the most recently used, and once the
\* budget is exceeded the least recently used key is evicted.
CacheInsert(held, k) ==
    LET put == Append(Without(held, k), k)
    IN  IF Len(put) > MaxCachedPixmaps THEN Tail(put) ELSE put

\* A thumbnail is stored in the cache the batch created.
StoreThumbnail(k) ==
    /\ m_ptrThumbnailCache # Null
    /\ Clock(lastUse) < MaxCacheUses
    /\ thumbs' = CacheInsert(thumbs, k)
    /\ lastUse' = [lastUse EXCEPT ![k] = Clock(lastUse) + 1]
    /\ UNCHANGED << buildVars, fileVars, pc, err, objectVars, callVars,
                    runVars, chainVars >>

\* A thumbnail is asked for: a hit counts as a use of the key, a miss
\* changes nothing.
LoadThumbnail(k) ==
    /\ m_ptrThumbnailCache # Null
    /\ Clock(lastUse) < MaxCacheUses
    /\ thumbs' = CacheLookup(thumbs, k)
    /\ lastUse' = IF k \in Keys(thumbs)
                  THEN [lastUse EXCEPT ![k] = Clock(lastUse) + 1]
                  ELSE lastUse
    /\ UNCHANGED << buildVars, fileVars, pc, err, objectVars, callVars,
                    runVars, chainVars >>

(* ------------------------------ process() ------------------------------- *)

\* What one unit of work can end with: success, a failure result, or an
\* exception.
Outcomes == {"ok", "fail", "exception"}

\* optimized: ++processed on result.isOk().
CountEveryPage(n, result) == n + 1

CountProcessed(n, result) == IF result = "ok" THEN n + 1 ELSE n

\* optimized: the closing test, processed < total.
BatchNeverFails(n, total) == FALSE

BatchFailed(n, total) == n < total

\* The index of snapshot page the loop handles next: pages are taken in
\* snapshot order, one per iteration.
NextPage(seq, done) == seq[Len(done) + 1]

\* The last stage index process() asks every chain for: optimized passes
\* the literal 5, arm64 passes m_ptrStages->lastFilterIdx().
ProcessLastFilterIdx(v) == IF v = "optimized" THEN 5 ELSE lastFilterIdx

\* process() begins: the snapshot is taken.  optimized refuses an object
\* without pages or stages and returns at once on an empty catalog.
\* A handler dispatched by processEvents() may call it too: the run that
\* waits in processEvents() stays suspended, with its snapshot, its counter
\* and the task of its current iteration, until the nested call has
\* returned or thrown.
StartProcess ==
    /\ Idle(pc)
    /\ CanCall
    /\ pc = "events" => Len(outer) < MaxNested
    /\ outer' = IF pc = "events" THEN Append(outer, Frame) ELSE outer
    /\ IF variant = "optimized" /\ (m_ptrPages = Null \/ m_ptrStages = Null)
       THEN /\ pc' = "not_initialized"
            /\ err' = "Project not properly initialized"
            /\ UNCHANGED page_sequence
       ELSE /\ page_sequence' = m_ptrPages[1]
            /\ err' = ""
            /\ pc' = IF variant = "optimized" /\ Len(m_ptrPages[1]) = 0
                     THEN "done" ELSE "loop"
    /\ attempted' = << >>
    /\ processed' = 0
    /\ results' = << >>
    /\ log' = << >>
    /\ summary' = Null
    /\ chain' = IF pc = "events" THEN Null ELSE chain
    /\ UNCHANGED << buildVars, fileVars, cacheVars, objectVars, callVars,
                    cursor, executed >>

\* The progress line of an iteration.  arm64 prints i + 1 when verbose;
\* optimized prints processed + 1.
ProgressLine(page) ==
    IF variant = "optimized"
    THEN << [index |-> processed + 1, total |-> Len(page_sequence),
             page |-> page] >>
    ELSE IF cli.isVerbose
    THEN << [index |-> Len(attempted) + 1, total |-> Len(page_sequence),
             page |-> page] >>
    ELSE << >>

\* How an iteration of process() ends, given its chain's outcome.
\* optimized: the try block counts a success and then calls
\* QCoreApplication::processEvents(), which dispatches the handlers that are
\* due before it returns; the local that holds the task is still in scope
\* there, and the task is destroyed when the try block is left.  An
\* exception skips the rest of the try block, destroys the task and is
\* swallowed by the catch blocks; either way the loop goes on.  arm64: the
\* result is dropped, the task is destroyed at the end of the loop body
\* and an exception leaves process().
EndIteration(result) ==
    /\ results' = Append(results, result)
    /\ cursor' = NullTask
    /\ executed' = << >>
    /\ IF variant = "optimized"
       THEN /\ processed' = CountProcessed(processed, result)
            /\ pc' = IF result = "exception" THEN "loop" ELSE "events"
            /\ chain' = IF result = "exception" THEN Null ELSE chain
            /\ err' = err
       ELSE /\ processed' = processed
            /\ pc' = IF result = "exception" THEN "threw" ELSE "loop"
            /\ chain' = Null
            /\ err' = IF result = "exception" THEN "exception" ELSE err

\* One iteration begins: the progress line, then createCompositeTask for
\* the page, through the last stage.  Task creation may throw.
BeginPage(created) ==
    /\ BetweenPages(pc)
    /\ Len(attempted) < Len(page_sequence)
    /\ LET page == NextPage(page_sequence, attempted)
           built == IF variant = "optimized"
                    THEN CreateCompositeTaskOptimized(
                             page, ProcessLastFilterIdx(variant), TRUE, m_debug)
                    ELSE CreateCompositeTaskArm64(
                             page, ProcessLastFilterIdx(variant), batch, debug)
       IN  /\ attempted' = Append(attempted, page)
           /\ log' = log \o ProgressLine(page)
           /\ debug' = IF variant = "arm64" THEN built.debug ELSE debug
           /\ IF ~created
              THEN EndIteration("exception")
              ELSE IF variant = "arm64" /\ RootAssertFails(built, ndebugBuild)
              THEN /\ pc' = "aborted"
                   /\ err' = "assert"
                   /\ chain' = Null
                   /\ cursor' = NullTask
                   /\ UNCHANGED << processed, results, executed >>
              ELSE /\ pc' = "exec"
                   /\ chain' = Ptr(built)
                   /\ cursor' = "load"
                   /\ UNCHANGED << err, processed, results, executed >>
    /\ UNCHANGED << buildVars, fileVars, cacheVars, batch, m_debug,
                    m_ptrPages, m_ptrStages, m_outDir, outFileNameGen,
                    m_ptrThumbnailCache, relinked, configured, callVars,
                    page_sequence, summary, outer >>

\* A chain built by a direct call ends: the caller holds the task and its
\* result (or the exception) until it lets go of them.
EndDirectCall(result, ran) ==
    /\ pc' = "returned"
    /\ cursor' = NullTask
    /\ results' = << result >>
    /\ executed' = ran
    /\ UNCHANGED << err, chain, processed >>

EndChain(result, ran) ==
    IF pc = "exec" THEN EndIteration(result) ELSE EndDirectCall(result, ran)

\* The caller of a direct call drops the task and its result.
ReleaseTask ==
    /\ pc = "returned"
    /\ pc' = "ready"
    /\ chain' = Null
    /\ results' = << >>
    /\ executed' = << >>
    /\ UNCHANGED << buildVars, fileVars, cacheVars, objectVars, callVars, err,
                    page_sequence, attempted, processed, log, summary,
                    outer, cursor >>

\* The file-loading task runs: it loads the page's image and, on success,
\* runs the root task it was given.  Around a null root there is nothing to
\* run: the call through the null pointer crashes or is reported as failed.
RunLoadFileTask(outcome) ==
    /\ pc \in {"exec", "direct"}
    /\ chain # Null
    /\ cursor = "load"
    /\ IF outcome # "ok"
       THEN EndChain(outcome, executed)
       ELSE IF chain[1].root = NullTask
       THEN \E o \in {"fail", "exception"} : EndChain(o, executed)
       ELSE /\ cursor' = chain[1].root
            /\ UNCHANGED << pc, err, chain, processed, results, executed >>
    /\ UNCHANGED << buildVars, fileVars, cacheVars, objectVars, callVars,
                    page_sequence, attempted, log, summary, outer >>

\* A stage's unit of work runs: on success it hands over to the
\* continuation it was created with, or ends the chain when it has none; a
\* failure or an exception stops the chain.
RunStageTask(outcome) ==
    /\ pc \in {"exec", "direct"}
    /\ chain # Null
    /\ cursor \in StageSet
    /\ IF outcome # "ok"
       THEN EndChain(outcome, Append(executed, cursor))
       ELSE IF NextOf(chain[1], cursor) = NullTask
       THEN EndChain("ok", Append(executed, cursor))
       ELSE /\ cursor' = NextOf(chain[1], cursor)
            /\ executed' = Append(executed, cursor)
            /\ UNCHANGED << pc, err, chain, processed, results >>
    /\ UNCHANGED << buildVars, fileVars, cacheVars, objectVars, callVars,
                    page_sequence, attempted, log, summary, outer >>

\* The loop is over: processEvents() has returned and the try block of the
\* last iteration has let go of its task.  optimized prints the summary and
\* throws when a page failed; arm64 returns.
FinishProcess ==
    /\ BetweenPages(pc)
    /\ Len(attempted) = Len(page_sequence)
    /\ IF variant = "optimized"
       THEN /\ summary' = Ptr([total |-> Len(page_sequence),
                               processed |-> processed,
                               failed |-> Len(page_sequence) - processed])
            /\ pc' = IF BatchFailed(processed, Len(page_sequence))
                     THEN "failed" ELSE "done"
            /\ err' = IF BatchFailed(processed, Len(page_sequence))
                      THEN "Some pages failed to process" ELSE err
       ELSE /\ summary' = summary
            /\ pc' = "done"
            /\ err' = err
    /\ chain' = Null
    /\ UNCHANGED << buildVars, fileVars, cacheVars, objectVars, callVars,
                    page_sequence, attempted, processed, results, log,
                    outer, cursor, executed >>

\* A call of process() made by a handler is over.  The run that waited in
\* processEvents() goes on where it was.  After a normal return, and after
\* an exception that the handler catches, control is still in
\* processEvents() and the waiting iteration still holds its task; an
\* exception that the handler lets go leaves processEvents(), destroys that
\* task and ends in the catch blocks of the loop.
EndNestedCall ==
    /\ NestedEnded
    /\ LET frame == outer[Len(outer)]
       IN  /\ page_sequence' = frame.page_sequence
           /\ attempted' = frame.attempted
           /\ processed' = frame.processed
           /\ results' = frame.results
           /\ log' = frame.log
    /\ summary' = Null
    /\ outer' = SubSeq(outer, 1, Len(outer) - 1)
    /\ pc' \in IF pc = "done" THEN {"events"} ELSE {"events", "loop"}
    /\ chain' = IF pc' = "events" THEN outer[Len(outer)].chain ELSE Null
    /\ UNCHANGED << buildVars, fileVars, cacheVars, objectVars, callVars, err,
                    cursor, executed >>

\* createCompositeTask called directly, for any page of the catalog and
\* any last stage index.
CallCreateCompositeTask(page, last_filter_idx, batchArg, debugArg) ==
    /\ NotRunning(pc)
    /\ CanCall
    /\ m_ptrStages # Null /\ m_ptrPages # Null
    /\ page \in PageIdSet(m_ptrPages[1])
    /\ variant = "arm64" => batchArg = batch /\ debugArg = debug
    /\ LET built == IF variant = "optimized"
                    THEN CreateCompositeTaskOptimized(page, last_filter_idx,
                                                      batchArg, debugArg)
                    ELSE CreateCompositeTaskArm64(page, last_filter_idx,
                                                  batch, debug)
       IN  /\ debug' = IF variant = "arm64" THEN built.debug ELSE debug
           /\ IF variant = "arm64" /\ RootAssertFails(built, ndebugBuild)
              THEN /\ pc' = "aborted"
                   /\ err' = "assert"
                   /\ chain' = Null
                   /\ cursor' = NullTask
              ELSE /\ pc' = "direct"
                   /\ err' = err
                   /\ chain' = Ptr(built)
                   /\ cursor' = "load"
    /\ UNCHANGED << buildVars, fileVars, cacheVars, batch, m_debug,
                    m_ptrPages, m_ptrStages, m_outDir, outFileNameGen,
                    m_ptrThumbnailCache, relinked, configured, callVars,
                    runVars, executed >>

(* --------------------------- specification ------------------------------ *)

\* Last stage indices a direct call is tried with: one below the first
\* stage up to one above the last.
LastIdxInputs == (fixOrientationFilterIdx - 1) .. (outputFilterIdx + 1)

\* The batch engine: construction, configuration and process(), with the
\* calls a handler can make while process() is in processEvents().
Next ==
    \/ \E n \in 0 .. MaxPages, dir \in {"", "out_dir"} :
           ConstructFromImages(n, dir)
    \/ \E f \in ProjectFiles : ConstructFromProjectArm64(f)
    \/ \E f \in ProjectFiles : \E how \in ReaderWays(f) :
           ConstructFromProjectOptimized(f, how)
    \/ \E f \in LoadFiles : \E how \in ReaderWays(f) : LoadProject(f, how)
    \/ \E b \in BOOLEAN : SetDebugMode(b)
    \/ \E idx \in LastIdxInputs : SetupFilter(idx)
    \/ StartProcess
    \/ \E created \in BOOLEAN : BeginPage(created)
    \/ \E o \in Outcomes : RunLoadFileTask(o)
    \/ \E o \in Outcomes : RunStageTask(o)
    \/ FinishProcess
    \/ EndNestedCall

Spec == Init /\ [][Next]_vars

\* The composite task builder on its own: createCompositeTask called with
\* every page and last stage index, and the chains it returns executed.
NextChain ==
    \/ \E n \in 0 .. MaxPages, dir \in {"", "out_dir"} :
           ConstructFromImages(n, dir)
    \/ \E b \in BOOLEAN : SetDebugMode(b)
    \/ \E p \in PageIds, k \in LastIdxInputs, b \in BOOLEAN, d \in BOOLEAN :
           CallCreateCompositeTask(p, k, b, d)
    \/ \E o \in Outcomes : RunLoadFileTask(o)
    \/ \E o \in Outcomes : RunStageTask(o)
    \/ ReleaseTask

SpecChain == Init /\ [][NextChain]_vars

\* Persistence on its own: a project is constructed or loaded, configured
\* and saved.
NextProject ==
    \/ \E n \in 0 .. MaxPages, dir \in {"", "out_dir"} :
           ConstructFromImages(n, dir)
    \/ \E f \in ProjectFiles : ConstructFromProjectArm64(f)
    \/ \E f \in ProjectFiles : \E how \in ReaderWays(f) :
           ConstructFromProjectOptimized(f, how)
    \/ \E f \in ProjectFiles : \E how \in ReaderWays(f) :
           LoadProject(f, how)
    \/ \E idx \in LastIdxInputs : SetupFilter(idx)
    \/ \E w \in BOOLEAN : SaveProject(w)

SpecProject == Init /\ [][NextProject]_vars

\* The thumbnail cache of a batch built from images, and its users.
NextCache ==
    \/ \E n \in 0 .. MaxPages, dir \in {"", "out_dir"} :
           ConstructFromImages(n, dir)
    \/ \E k \in PageIds : StoreThumbnail(k)
    \/ \E k \in PageIds : LoadThumbnail(k)

SpecCache == Init /\ [][NextCache]_vars

\* The stage setups on their own: an arm64 batch over a catalog of one
\* page or more, whose stage sequence holds any of the store states, under
\* any of the setup command lines.
InitSetup ==
    /\ variant = "arm64"
    /\ ndebugBuild = FALSE
    /\ cli \in CommandLinesSetup
    /\ pc = "ready"
    /\ err = ""
    /\ batch = TRUE
    /\ debug = TRUE
    /\ m_debug = FALSE
    /\ m_ptrPages \in {Ptr(PagesUpTo(n)) : n \in 1 .. MaxPages}
    /\ m_ptrStages \in {Ptr(st) : st \in StoreStates}
    /\ m_outDir = ""
    /\ outFileNameGen = Ptr("out_dir")
    /\ m_ptrThumbnailCache = Ptr("out_dir")
    /\ relinked = FALSE
    /\ configured = {}
    /\ source = [kind |-> "images", numPages |-> Len(m_ptrPages[1]),
                 outputDirectory |-> "out_dir"]
    /\ page_sequence = << >>
    /\ attempted = << >>
    /\ processed = 0
    /\ results = << >>
    /\ chain = Null
    /\ cursor = NullTask
    /\ executed = << >>
    /\ log = << >>
    /\ summary = Null
    /\ outer = << >>
    /\ saved = Null
    /\ thumbs = << >>
    /\ lastUse = NeverUsed

NextSetup == \E idx \in LastIdxInputs : SetupFilter(idx)

SpecSetup == InitSetup /\ [][NextSetup]_vars


(* ------------------------- the claims, checked -------------------------- *)

\* The stage at a position of the stage sequence.
StageAt(idx) == CHOOSE s \in StageSet : StageIdx(s) = idx

\* The states in which a call of process() has ended.
ProcessEnded == {"done", "failed", "threw", "aborted"}

Count(seq, S) == Cardinality({j \in 1 .. Len(seq) : seq[j] \in S})

\* C1: a chain built by createCompositeTask(page, k) with k in 0..5 holds a
\* task for each of the stages 0..k and for no other stage, k + 1 tasks in
\* all, and no stage above k ever runs when the chain is executed.
C1_ExactlyStagesUpToLast ==
    (chain # Null /\ chain[1].last \in fixOrientationFilterIdx .. outputFilterIdx)
    => /\ CreatedStages(chain[1]) =
              {s \in StageSet : StageIdx(s) <= chain[1].last}
       /\ Len(chain[1].created) = chain[1].last + 1
       /\ \A j \in 1 .. Len(executed) : StageIdx(executed[j]) <= chain[1].last
       /\ (pc = "returned" /\ results = << "ok" >>)
              => Len(executed) = chain[1].last + 1

\* A chain requested through deskew (k = 2) was built and has run to
\* success: its three stages ran.
C1_Witness ==
    /\ pc = "returned"
    /\ chain # Null
    /\ chain[1].last = deskewFilterIdx
    /\ results = << "ok" >>
    /\ executed = << "fix_orientation", "page_split", "deskew" >>

\* C2: the tasks of a chain are created from stage k down to stage 0; the
\* task of stage i < k was given the task of stage i + 1 as continuation and
\* the task of stage k was given null; the file-loading task was given stage
\* 0's task; so the stages run in the order 0, 1, 2, ... of the sequence.
C2_BackwardBuildForwardRun ==
    (chain # Null /\ chain[1].last \in fixOrientationFilterIdx .. outputFilterIdx)
    => /\ \A j \in 1 .. Len(chain[1].created) :
             LET t == chain[1].created[j]
             IN  /\ StageIdx(t.stage) = chain[1].last - (j - 1)
                 /\ t.page = chain[1].page
                 /\ t.next = IF StageIdx(t.stage) = chain[1].last
                             THEN NullTask
                             ELSE StageAt(StageIdx(t.stage) + 1)
       /\ chain[1].root = StageAt(fixOrientationFilterIdx)
       /\ \A j \in 1 .. Len(executed) : executed[j] = StageAt(j - 1)
       /\ cursor \in StageSet => StageIdx(cursor) = Len(executed)

\* A full chain (k = 5) has run all six stages, in order, to success.
C2_Witness ==
    /\ pc = "returned"
    /\ chain # Null
    /\ chain[1].last = outputFilterIdx
    /\ results = << "ok" >>
    /\ executed = << "fix_orientation", "page_split", "deskew",
                     "select_content", "page_layout", "output" >>

\* C3: in every chain at most one stage was created with debugFlag = TRUE,
\* and only stage 0, the first to run, may be that stage.
\* (Violated by the optimized createCompositeTask, which hands its debug
\* argument to all six createTask calls.)
C3_DebugOnlyForFirstStage ==
    chain # Null
    => /\ Cardinality({j \in 1 .. Len(chain[1].created) :
                          chain[1].created[j].debug}) <= 1
       /\ \A j \in 1 .. Len(chain[1].created) :
             chain[1].created[j].debug
                 => chain[1].created[j].stage = StageAt(fixOrientationFilterIdx)

\* C4: whatever a page's chain ends with, process() goes on to the later
\* pages: when process() has ended after some page's chain failed or
\* threw, every page of the snapshot was attempted all the same.
\* (Violated by the arm64 process(), which catches nothing.)
C4_FailureDoesNotEndTheLoop ==
    (pc \in ProcessEnded /\ Count(results, {"fail", "exception"}) > 0)
    => Len(attempted) = Len(page_sequence)

\* C5 (the optimized process(), which keeps the counts): the summary's
\* failed count is the number of pages whose chain failed or threw, its
\* succeeded count the number of pages whose chain succeeded, and the two
\* add up to the total; all through the loop
\* 0 <= processed <= pages attempted <= total.
C5_CountsMatchOutcomes ==
    variant = "optimized"
    => /\ summary # Null
          => /\ summary[1].total = Len(page_sequence)
             /\ summary[1].failed = Count(results, {"fail", "exception"})
             /\ summary[1].processed = Count(results, {"ok"})
             /\ summary[1].processed + summary[1].failed = summary[1].total
       /\ 0 <= processed
       /\ processed <= Len(attempted)
       /\ Len(attempted) <= Len(page_sequence)
       /\ processed = Count(results, {"ok"})

\* Three pages, two succeeded and one failed, and the summary says so.
C5_Witness ==
    /\ variant = "optimized"
    /\ summary # Null
    /\ summary[1] = [total |-> 3, processed |-> 2, failed |-> 1]
    /\ Count(results, {"exception"}) = 1

\* C6 (the optimized process()): process() returns normally exactly when
\* every page of the snapshot succeeded, and signals the failed batch status
\* exactly when some page did not, in both cases after all pages were
\* attempted.
C6_SuccessIffAllPagesSucceeded ==
    (variant = "optimized" /\ pc \in {"done", "failed"})
    => /\ attempted = page_sequence
       /\ Len(results) = Len(page_sequence)
       /\ (pc = "done") <=> (Count(results, {"ok"}) = Len(page_sequence))
       /\ (pc = "failed") <=> (Count(results, {"fail", "exception"}) > 0)

\* The scenario of the spec: three pages, the second one's file cannot be
\* loaded, the run completes and signals the failed status.
C6_Witness ==
    /\ variant = "optimized"
    /\ pc = "failed"
    /\ results = << "ok", "fail", "ok" >>
    /\ err = "Some pages failed to process"

\* C7: process() takes the pages in snapshot order, one chain at a time,
\* and has handled each page of the snapshot exactly once when it ends.
\* (Violated by the arm64 process() when a chain throws: see C4.)
C7_SnapshotOrderEachPageOnce ==
    /\ Len(attempted) <= Len(page_sequence)
    /\ \A j \in 1 .. Len(attempted) : attempted[j] = page_sequence[j]
    /\ pc = "exec" => /\ chain # Null
                      /\ chain[1].page = attempted[Len(attempted)]
                      /\ Len(results) = Len(attempted) - 1
    /\ pc = "loop" => chain = Null /\ Len(results) = Len(attempted)
    /\ pc \in ProcessEnded => attempted = page_sequence

\* C8: no file-loading task is ever built around a null root task.
\* (Violated by the optimized createCompositeTask for a last stage index
\* below 0, and by the arm64 one in a build with NDEBUG.)
C8_NoLoadFileTaskAroundNullRoot ==
    chain # Null => chain[1].root # NullTask

\* C9: construction from a project file that names no output directory
\* ends with an exception: no object exists and no page is processed.
C9_NoOutputDirectoryNoBatch ==
    (source.kind = "project" /\ source.file.outputDirectory = "")
    => /\ pc = "ctor_failed"
       /\ err # ""
       /\ attempted = << >>
       /\ results = << >>

\* The arm64 constructor has read a well-formed project without an output
\* directory and has thrown.
C9_Witness ==
    /\ source.kind = "project"
    /\ source.file.openable
    /\ source.file.wellFormed
    /\ source.file.outputDirectory = ""
    /\ pc = "ctor_failed"
    /\ err = "Output directory is not set."

ErrOpen ==
    {"Unable to open the project file.",
     "Unable to open project file for reading"}

ErrParse ==
    {"The project file is broken.",
     "Project file is not a valid XML document"}

\* For a file that cannot be opened the error is the open error, for one
\* that is not well-formed it is the parse error.
FailFastError(f) == IF ~f.openable THEN ErrOpen ELSE ErrParse

\* The project files that cannot be opened or are not well-formed.
BadFiles == {f \in ProjectFiles : ~f.openable \/ ~f.wellFormed}

\* C10: a constructor given a project file that cannot be opened or is not
\* well-formed throws the matching error with no page catalog and no stage
\* sequence created, and no page is processed; loadProject given such a
\* file throws the matching error, leaves the page catalog, the stage
\* sequence with its settings stores and the output directory as they were,
\* and begins no page.
C10_BadProjectFileFailsFast ==
    /\ [](  (source.kind = "project"
              /\ (~source.file.openable \/ ~source.file.wellFormed))
          => /\ pc = "ctor_failed"
             /\ err \in FailFastError(source.file)
             /\ m_ptrPages = Null
             /\ m_ptrStages = Null
             /\ attempted = << >>)
    /\ [][ (/\ source'.kind = "load"
             /\ source'.file \in BadFiles
             /\ \E how \in ReaderFailures : LoadProject(source'.file, how))
              => /\ err' \in FailFastError(source'.file)
                 /\ UNCHANGED << m_ptrPages, m_ptrStages, m_outDir,
                                 m_ptrThumbnailCache >>
                 /\ attempted' \in {attempted, << >>} ]_vars

\* loadProject was given a file that cannot be opened, on an object that
\* holds a page catalog and a stage sequence.
C10_Witness ==
    /\ source.kind = "load"
    /\ ~source.file.openable
    /\ err \in ErrOpen
    /\ pc = "ready"
    /\ m_ptrPages # Null
    /\ m_ptrStages # Null

\* The states in which a call of process() is in progress.
Running == {"loop", "exec", "events"}

\* The step replaces the stage sequence by a new one, on which no setup
\* has run (loadProject does, also when a handler calls it from
\* processEvents()).
FreshStageSequence == m_ptrStages' = Ptr(DefaultSettings) /\ configured' = {}

\* The step relinks, runs a stage setup, or changes the stores of the stage
\* sequence in use.
BulkMutation ==
    \/ relinked' # relinked
    \/ ~(configured' \subseteq configured)
    \/ m_ptrStages' # m_ptrStages /\ ~FreshStageSequence

\* C11: the settings stores are mutated in bulk (relinking, the stage
\* setups over the page set) only by a constructor or by a member function
\* called while process() is not running: every such step starts with no
\* chain in hand and leaves none, and no step taken between the beginning of
\* process() and its end relinks, runs a setup or changes a settings store
\* of the stage sequence in use.
C11_BulkMutationsBeforeTheRun ==
    [][ /\ BulkMutation
           => /\ pc \notin Running
              /\ pc' \in {"ready", "ctor_failed"}
              /\ chain = Null /\ chain' = Null
        /\ pc \in Running
           => /\ UNCHANGED relinked
              /\ configured' \subseteq configured
              /\ \/ UNCHANGED m_ptrStages
                 \/ pc = "events" /\ FreshStageSequence ]_vars

\* A relinked project whose stores were set up away from their defaults is
\* being processed: the chain of its second page is running.
C11_Witness ==
    /\ pc = "exec"
    /\ Len(attempted) = 2
    /\ relinked
    /\ m_ptrStages # Null
    /\ m_ptrStages[1] # DefaultSettings
    /\ cursor \in StageSet

\* The page holds, in the settings of the stage, every override the command
\* line gives for that stage.
HoldsOverrides(st, c, stage, p) ==
    CASE stage = "fix_orientation" ->
             c.hasOrientation => st.fix_orientation[p] = CliRotation(c)
      [] stage = "page_split" ->
             c.hasLayout => st.page_split[p] = c.layout
      [] stage = "deskew" ->
             c.hasDeskewAngle => /\ st.deskew[p].present
                                 /\ st.deskew[p].angle = c.deskewAngle
      [] stage = "select_content" ->
             c.hasContentRect => /\ st.select_content[p].mode = "MODE_MANUAL"
                                 /\ st.select_content[p].box = c.contentRect
      [] stage = "page_layout" ->
             c.hasMargins => st.page_layout[p] = c.margins
      [] stage = "output" ->
             /\ c.hasOutputDpi => st.output[p].outputDpi = c.outputDpi
             /\ c.hasColorMode => st.output[p].colorMode = c.colorMode
             /\ c.hasDespeckleLevel =>
                    st.output[p].despeckleLevel = c.despeckleLevel
             /\ c.hasDewarpingOptions => st.output[p].cliDewarping

\* The stages whose setup has run on the object at some time.  The
\* optimized constructors run all six; arm64 runs them through
\* setupFilter, and no arm64 member function replaces the stage sequence.
SetupHasRun == IF variant = "optimized" THEN StageSet ELSE configured

\* C12: once the setup of a stage has run, every page of the catalog, and
\* every page of the snapshot process() works on, holds in that stage's
\* settings every override given for the stage.
\* (Violated by the optimized loadProject: it replaces the stage sequence
\* by a new one and runs setupStages(), which applies no override.)
C12_OverridesHeldByEveryPage ==
    (m_ptrStages # Null /\ m_ptrPages # Null)
    => \A stage \in SetupHasRun :
          \A p \in PageIdSet(m_ptrPages[1]) \cup PageIdSet(page_sequence) :
             HoldsOverrides(m_ptrStages[1], cli, stage, p)

\* The command line gives no override.
NoOverrides(c) ==
    ~(c.hasOrientation \/ c.hasLayout \/ c.hasDeskewAngle \/ c.hasContentRect
      \/ c.hasMargins \/ c.hasOutputDpi \/ c.hasColorMode \/ c.hasPictureShape
      \/ c.hasSplittingOptions \/ c.hasWhiteMargins
      \/ c.hasNormalizeIllumination \/ c.hasThreshold \/ c.hasDespeckleLevel
      \/ c.hasDepthPerception \/ c.hasDewarpingOptions)

\* The last constructor or loadProject call read its project file to the
\* end, and the object holds what it read.
ProjectLoaded ==
    /\ pc = "ready"
    /\ source.kind \in {"project", "load"}
    /\ FileOpens(source.file)
    /\ DocSetContent(source.file)
    /\ ~readProjectFails(source.file)

\* C13 (the optimized constructor, loadProject and saveProject): a
\* saveProject that follows the load of a project, with no override given
\* and nothing changed in between, writes the page catalog, the per-page
\* settings of every stage and the output directory of the file that was
\* loaded.
\* (Violated: the constructor keeps the directory in a local and saveProject
\* writes the member m_outDir, which is still empty; neither the constructor
\* nor loadProject hands the stage sequence to the reader, so the settings
\* written are those of a fresh stage sequence.)
C13_LoadSaveRoundTrip ==
    [][ (variant = "optimized" /\ ProjectLoaded /\ NoOverrides(cli)
         /\ SaveProject(TRUE))
        => saved' = Ptr(WrittenDocument(PagesUpTo(source.file.numPages),
                                        FileSettings(source.file),
                                        source.file.outputDirectory)) ]_vars

\* C14: every chain process() builds is asked for through the output
\* stage: its last stage index is the output stage's index, whichever page
\* of the snapshot it is for, and it holds a task of each of the six stages.
C14_EveryPageThroughOutput ==
    pc = "exec"
    => /\ chain # Null
       /\ chain[1].last = outputFilterIdx
       /\ CreatedStages(chain[1]) = StageSet
       /\ Len(chain[1].created) = Cardinality(StageSet)
       /\ \A j \in 1 .. Len(executed) : executed[j] = StageAt(j - 1)

\* process() is on its second page and five stages of that page's chain
\* have run: the output stage is next.
C14_Witness ==
    /\ pc = "exec"
    /\ Len(attempted) = 2
    /\ chain[1].page = page_sequence[2]
    /\ cursor = "output"
    /\ executed = << "fix_orientation", "page_split", "deskew",
                     "select_content", "page_layout" >>

\* C15: once a project has been loaded, the relinking pass has been applied
\* to its stage sequence; and the step that applies the pass leaves every
\* page of the catalog with the settings the stage sequence held for it, in
\* every store, under the same page id.
\* (Violated by the optimized constructor and loadProject, which create the
\* stage sequence after the read and never call performRelinking.)
C15_LoadingRelinksAndKeepsSettings ==
    /\ [](ProjectLoaded => relinked)
    /\ [][ (~relinked /\ relinked')
           => /\ m_ptrStages' # Null /\ m_ptrPages' # Null
              /\ \A p \in PageIdSet(m_ptrPages'[1]) :
                    /\ m_ptrStages'[1].fix_orientation[p] =
                           DefaultSettings.fix_orientation[p]
                    /\ m_ptrStages'[1].page_split[p] =
                           DefaultSettings.page_split[p]
                    /\ m_ptrStages'[1].deskew[p] = DefaultSettings.deskew[p]
                    /\ m_ptrStages'[1].select_content[p] =
                           DefaultSettings.select_content[p]
                    /\ m_ptrStages'[1].page_layout[p] =
                           DefaultSettings.page_layout[p]
                    /\ m_ptrStages'[1].output[p] = DefaultSettings.output[p]
       ]_vars

\* C16: the progress line of the i-th page of the snapshot shows index i,
\* the number of pages of the snapshot and that page; so the index goes up
\* by one from each page to the next, whatever the earlier chains ended
\* with.  (arm64 prints the lines only when the command line asks for
\* verbose output.)
\* (Violated by the optimized process(), which prints processed + 1: the
\* index does not move past a page that failed.)
C16_ProgressIndexIsPagePosition ==
    /\ (variant = "optimized" \/ cli.isVerbose) => Len(log) = Len(attempted)
    /\ \A j \in 1 .. Len(log) :
          log[j] = [index |-> j,
                    total |-> Len(page_sequence),
                    page  |-> page_sequence[j]]

\* C17: when a call of process() on an object with pages and stages has
\* ended, normally or with the failed batch status, the final summary has
\* been printed, with the number of pages of the snapshot, the number that
\* succeeded and the number that did not.
\* (Violated by the optimized process() on an empty catalog, which returns
\* before the summary, and by the arm64 process(), which prints none.)
C17_SummaryAlwaysReported ==
    pc \in ProcessEnded
    => /\ summary # Null
       /\ summary[1].total = Len(page_sequence)
       /\ summary[1].processed = Count(results, {"ok"})
       /\ summary[1].failed = Len(page_sequence) - Count(results, {"ok"})

\* The chain is built for the page, and every task in it is bound to it.
BoundTo(held, page) ==
    /\ held # Null
    /\ held[1].page = page
    /\ \A j \in 1 .. Len(held[1].created) : held[1].created[j].page = page

\* C18: every task of a chain is bound to the page the chain was built
\* for.  While process() executes a chain it is the chain of the page the
\* loop is at, and the results so far are one per earlier page.  The only
\* holder of a chain is the iteration that built it: while that iteration
\* waits in processEvents(), also below a nested call of process(), it
\* holds the finished chain of its own page, and none of its tasks is
\* running; once the iteration is over no chain is held.  No stage of a
\* chain runs twice, a chain in execution is not exchanged, and execution
\* always begins with a chain built on that step for the next page of the
\* snapshot, never with the chain of an earlier page.
C18_OneFreshChainPerPage ==
    /\ [](/\ chain # Null => BoundTo(chain, chain[1].page)
          /\ pc = "exec"
             => /\ Len(attempted) \in 1 .. Len(page_sequence)
                /\ BoundTo(chain, page_sequence[Len(attempted)])
                /\ Len(results) = Len(attempted) - 1
          /\ pc = "events"
             => /\ Len(attempted) \in 1 .. Len(page_sequence)
                /\ BoundTo(chain, page_sequence[Len(attempted)])
                /\ Len(results) = Len(attempted)
          /\ \A i \in 1 .. Len(outer) :
                /\ Len(outer[i].attempted) \in 1 .. Len(outer[i].page_sequence)
                /\ BoundTo(outer[i].chain,
                           outer[i].page_sequence[Len(outer[i].attempted)])
          /\ pc \notin {"exec", "events"} => chain = Null
          /\ pc # "exec" => cursor = NullTask /\ executed = << >>
          /\ \A i, j \in 1 .. Len(executed) :
                i # j => executed[i] # executed[j])
    /\ [][ /\ (pc = "exec" /\ pc' = "exec") => chain' = chain
           /\ (pc # "exec" /\ pc' = "exec")
              => /\ chain' # chain
                 /\ chain'[1].page = page_sequence[Len(attempted) + 1]
                 /\ cursor' = "load"
                 /\ executed' = << >>
           /\ (pc = "events" /\ pc' = "events" /\ outer' = outer)
              => chain' = chain ]_vars

\* A nested call of process() executes the chain of its second page while
\* the run that waits in processEvents() holds the finished chain of its
\* first page: two chains are alive, each bound to its own page.
C18_Witness ==
    /\ pc = "exec"
    /\ Len(outer) = 1
    /\ BoundTo(outer[1].chain, page_sequence[1])
    /\ Len(attempted) = 2
    /\ BoundTo(chain, page_sequence[2])
    /\ Len(executed) = 2

\* The keys that were stored or found at some time.
UsedKeys == {k \in PageIds : lastUse[k] > 0}

\* The smaller of two numbers.
Smaller(a, b) == IF a <= b THEN a ELSE b

\* C19: the cache never holds more keys than its budget and evicts none
\* while it has room; every key it has evicted was last used before every
\* key it still holds, so the least recently used key goes first and a key
\* that was found again outlives the keys used before that hit; and the key
\* used last is always there.
C19_EvictsLeastRecentlyUsed ==
    /\ Keys(thumbs) \subseteq UsedKeys
    /\ Cardinality(Keys(thumbs)) = Len(thumbs)
    /\ Len(thumbs) = Smaller(Cardinality(UsedKeys), MaxCachedPixmaps)
    /\ \A k \in Keys(thumbs), e \in UsedKeys \ Keys(thumbs) :
          lastUse[e] < lastUse[k]
    /\ \A k \in UsedKeys : lastUse[k] = Clock(lastUse) => k \in Keys(thumbs)

\* More keys than the budget were stored, the first of them was found
\* again before the last was stored, and so the first is still held while a
\* key stored after it is gone.
C19_Witness ==
    /\ Cardinality(UsedKeys) > MaxCachedPixmaps
    /\ 1 \in Keys(thumbs)
    /\ 2 \in UsedKeys \ Keys(thumbs)
    /\ lastUse[1] > lastUse[2]
    /\ lastUse[1] # Clock(lastUse)

\* C20: every task of every chain process() builds was created with
\* batchFlag = TRUE and debugFlag = FALSE, whatever debug mode the object
\* is in.
\* (Violated by the optimized process(), which passes the member m_debug
\* on to createCompositeTask and so to every createTask call.)
C20_BatchRunsWithoutDebug ==
    pc = "exec"
    => /\ chain # Null
       /\ \A j \in 1 .. Len(chain[1].created) :
             /\ chain[1].created[j].batch
             /\ ~chain[1].created[j].debug

(* ------------------------------- C21 ------------------------------------ *)

\* The setup method of one stage.
StageSetup(s, st, c, allPages) ==
    CASE s = "fix_orientation" -> setupFixOrientation(st, c, allPages)
      [] s = "page_split"      -> setupPageSplit(st, c, allPages)
      [] s = "deskew"          -> setupDeskew(st, c, allPages)
      [] s = "select_content"  -> setupSelectContent(st, c, allPages)
      [] s = "page_layout"     -> setupPageLayout(st, c, allPages)
      [] s = "output"          -> setupOutput(st, c, allPages)

\* The positions that are the position of a stage.
StagePositions == {StageIdx(s) : s \in StageSet}

\* C21: setupFilter(idx, pages) runs the setup of exactly the stage at
\* position idx and changes only that stage's settings store: the stores of
\* the five other stages are as before the call, and an idx that is no
\* stage's position changes nothing.
C21_SetupChangesOnlyItsStage ==
    /\ [][\A idx \in LastIdxInputs : SetupFilter(idx) =>
            \A s \in StageSet :
                IF StageIdx(s) = idx
                THEN m_ptrStages'[1][s] =
                        StageSetup(s, m_ptrStages[1], cli,
                                   PageIdSet(m_ptrPages[1]))[s]
                ELSE m_ptrStages'[1][s] = m_ptrStages[1][s]]_vars
    /\ [](m_ptrStages # Null /\ m_ptrPages # Null =>
            \A idx \in LastIdxInputs \ StagePositions :
                setupFilter(m_ptrStages[1], cli, idx,
                            PageIdSet(m_ptrPages[1])) = m_ptrStages[1])

\* The page-layout setup alone has run, under every override, on stores that
\* were configured by hand: the margins are the given ones and the five other
\* stores are as they were.
C21_Witness ==
    /\ pc = "ready" /\ cli = CliAll /\ configured = {"page_layout"}
    /\ m_ptrPages = Ptr(PagesUpTo(2))
    /\ m_ptrStages =
          Ptr([EditedSettings(PageIds) EXCEPT !.page_layout =
                 [p \in PageIds |->
                     IF p \in {1, 2} THEN "cli_margins" ELSE "file_margins"]])

(* ------------------------------- C22 ------------------------------------ *)

\* The command line gives no override for the stage.
NoOverrideFor(c, s) ==
    CASE s = "fix_orientation" -> ~c.hasOrientation
      [] s = "page_split"      -> ~c.hasLayout
      [] s = "deskew"          -> ~c.hasDeskewAngle
      [] s = "select_content"  -> ~c.hasContentRect
      [] s = "page_layout"     -> ~c.hasMargins
      [] s = "output"          ->
             ~(c.hasOutputDpi \/ c.hasColorMode \/ c.hasPictureShape
               \/ c.hasSplittingOptions \/ c.hasWhiteMargins
               \/ c.hasNormalizeIllumination \/ c.hasThreshold
               \/ c.hasDespeckleLevel \/ c.hasDepthPerception
               \/ c.hasDewarpingOptions)

\* Two values of a stage's store give a page the same stored settings
\* (a deskew record made for a page that had none, holding the automatic
\* mode such a page has anyway, counts as the same).
SameStored(s, a, b) ==
    IF s = "deskew"
    THEN a.mode = b.mode /\ a.angle = b.angle
    ELSE a = b

\* C22: when the command line gives no override for a stage, that stage's
\* setup leaves the stored settings of every page for that stage as they were
\* before the call: a rotation, deskew angle, content box, margins or output
\* parameters stored earlier are not reset or overwritten.
C22_NoOverrideLeavesSettings ==
    [][\A idx \in StagePositions :
          (SetupFilter(idx) /\ NoOverrideFor(cli, StageAt(idx))) =>
              \A p \in PageIds :
                  SameStored(StageAt(idx),
                             m_ptrStages[1][StageAt(idx)][p],
                             m_ptrStages'[1][StageAt(idx)][p])]_vars

(* ------------------------------- C23 ------------------------------------ *)

\* The stages whose setup is a loop over the pages of the set
\* (setupPageSplit makes one call for all pages).
LoopingPositions == StagePositions \ {pageSplitFilterIdx}

\* The loop of a setup method run over the pages in the given order: one
\* iteration is the setup applied to the one page.
RECURSIVE SetupInOrder(_, _, _, _)
SetupInOrder(st, c, idx, order) ==
    IF order = << >> THEN st
    ELSE SetupInOrder(setupFilter(st, c, idx, {Head(order)}), c, idx,
                      Tail(order))

\* Every order in which the pages of a set can be visited.
Orders(S) ==
    {o \in [1 .. Cardinality(S) -> S] :
        \A i, j \in 1 .. Cardinality(S) : o[i] = o[j] => i = j}

\* C23: each stage setup is idempotent under fixed command-line options:
\* running setupFilter(idx, pages) twice in a row leaves every settings store
\* as running it once does, a setup that has run changes nothing when it runs
\* again, and the result does not depend on the order in which the pages of
\* the set are visited.
C23_SetupIdempotentAnyOrder ==
    /\ [][\A idx \in StagePositions :
            (SetupFilter(idx) /\ StageAt(idx) \in configured) =>
                m_ptrStages' = m_ptrStages]_vars
    /\ [](m_ptrStages # Null /\ m_ptrPages # Null =>
            LET pages == PageIdSet(m_ptrPages[1])
                once(idx) == setupFilter(m_ptrStages[1], cli, idx, pages)
            IN  /\ \A idx \in LastIdxInputs :
                      setupFilter(once(idx), cli, idx, pages) = once(idx)
                /\ \A idx \in LoopingPositions : \A o \in Orders(pages) :
                      SetupInOrder(m_ptrStages[1], cli, idx, o) = once(idx))

\* The deskew setup has run without an angle override over two pages, the
\* first with stored settings and the second without: the first is as it was
\* and the second has its automatic record, which a second run finds.
C23_Witness ==
    /\ pc = "ready" /\ "deskew" \in configured /\ ~cli.hasDeskewAngle
    /\ m_ptrPages = Ptr(PagesUpTo(2))
    /\ m_ptrStages[1].deskew[1] =
          [present |-> TRUE, mode |-> "MODE_MANUAL", angle |-> "file_angle"]
    /\ m_ptrStages[1].deskew[2] =
          [present |-> TRUE, mode |-> "MODE_AUTO", angle |-> "auto_angle"]
    /\ ~m_ptrStages[1].deskew[3].present

(* ------------------------------- C24 ------------------------------------ *)

\* optimized outputDirectory().
outputDirectory == m_outDir

\* optimized isProjectValid().
isProjectValid == m_ptrPages # Null /\ m_ptrStages # Null /\ m_outDir # ""

\* The output directory the batch was constructed with: the argument of the
\* constructor from images, or the one the project file names.
GivenDirectory ==
    IF source.kind = "images" THEN source.outputDirectory
    ELSE source.file.outputDirectory

\* C24: after either constructor of the optimized variant has completed, the
\* batch is a valid project: isProjectValid() is true, outputDirectory()
\* returns the non-empty output directory the batch was given, and a project
\* saved by saveProject() stores that same directory.
C24_ConstructedBatchIsValid ==
    (/\ variant = "optimized" /\ pc = "ready"
     /\ source.kind \in {"images", "project"}
     /\ GivenDirectory # "")
    => /\ isProjectValid
       /\ outputDirectory = GivenDirectory
       /\ saved # Null => saved[1].outputDirectory = GivenDirectory

(* ------------------------------- C25 ------------------------------------ *)

\* The iterations the loop of process() has begun.
Iterations == Len(attempted)

\* C25: process() runs exactly as many iterations as the snapshot taken at
\* its start has pages: never more while it runs, and exactly that many when
\* it has ended, also when the outcome of a page is a failure or an
\* exception; and the snapshot stays as it was taken while the run is in
\* progress, also when the page catalog of the batch is replaced meanwhile;
\* a run suspended in processEvents() while a handler's process() runs
\* keeps its snapshot and goes on with it afterwards.
\* (Violated by the arm64 process() when a chain throws: see C4.)
C25_OneIterationPerSnapshotPage ==
    /\ [](/\ Iterations <= Len(page_sequence)
          /\ pc \in ProcessEnded => Iterations = Len(page_sequence))
    /\ [][ /\ (pc \in Running /\ outer' = outer)
               => UNCHANGED page_sequence
           /\ \A i \in 1 .. Len(outer) :
                 i <= Len(outer') => outer'[i] = outer[i]
           /\ Len(outer') > Len(outer)
               => outer'[Len(outer')].page_sequence = page_sequence
           /\ Len(outer') < Len(outer)
               => page_sequence' = outer[Len(outer)].page_sequence ]_vars

(* ------------------------------- C26 ------------------------------------ *)

\* The splitting options of a page's output params.
SplittingOptions(params) ==
    << params.splitOutput, params.pictureShape, params.cliSplitting >>

\* A colour-mode override is given and it is MIXED.
MixedGiven(c) == c.hasColorMode /\ c.colorMode = "MIXED"

\* C26: in setupOutput the picture-shape and splitting-option overrides take
\* effect only when a colour-mode override is given and it is MIXED: then a
\* given picture shape turns split output on and is stored, and given
\* splitting options are stored; in every other case each page's splitting
\* options after the call equal its splitting options before the call.  The
\* other output overrides (DPI, white margins, illumination, threshold,
\* despeckle level, depth perception, dewarping) are applied whenever they
\* are given, whatever the colour mode, and left alone when they are not.
C26_SplittingOnlyWithMixed ==
    [][SetupFilter(outputFilterIdx) =>
         \A p \in PageIdSet(m_ptrPages[1]) :
            LET a == m_ptrStages[1].output[p]
                b == m_ptrStages'[1].output[p]
            IN  /\ ~MixedGiven(cli) => SplittingOptions(b) = SplittingOptions(a)
                /\ MixedGiven(cli) =>
                      /\ IF cli.hasPictureShape
                         THEN b.splitOutput
                              /\ b.pictureShape = cli.pictureShape
                         ELSE b.splitOutput = a.splitOutput
                              /\ b.pictureShape = a.pictureShape
                      /\ b.cliSplitting =
                            IF cli.hasSplittingOptions THEN TRUE
                            ELSE a.cliSplitting
                /\ b.outputDpi =
                      IF cli.hasOutputDpi THEN cli.outputDpi ELSE a.outputDpi
                /\ b.whiteMargins =
                      IF cli.hasWhiteMargins THEN cli.whiteMargins
                      ELSE a.whiteMargins
                /\ b.normalizeIllumination =
                      IF cli.hasNormalizeIllumination
                      THEN cli.normalizeIllumination
                      ELSE a.normalizeIllumination
                /\ b.threshold =
                      IF cli.hasThreshold THEN cli.threshold ELSE a.threshold
                /\ b.despeckleLevel =
                      IF cli.hasDespeckleLevel THEN cli.despeckleLevel
                      ELSE a.despeckleLevel
                /\ b.depthPerception =
                      IF cli.hasDepthPerception THEN cli.depthPerception
                      ELSE a.depthPerception
                /\ b.cliDewarping =
                      IF cli.hasDewarpingOptions THEN TRUE
                      ELSE a.cliDewarping]_vars

\* The output setup has run with a black-and-white colour mode, a picture
\* shape, splitting options and the other output overrides given, on a page
\* whose output parameters were stored before: the page keeps its stored
\* splitting options and holds the given colour mode, DPI, threshold and
\* dewarping options.
C26_Witness ==
    /\ pc = "ready" /\ "output" \in configured
    /\ cli.hasColorMode /\ cli.colorMode = "BLACK_AND_WHITE"
    /\ cli.hasPictureShape /\ cli.hasSplittingOptions /\ cli.hasOutputDpi
    /\ m_ptrStages[1].output[1] =
          [EditedParams EXCEPT !.colorMode = "BLACK_AND_WHITE",
                               !.outputDpi = "cli_dpi",
                               !.whiteMargins = TRUE,
                               !.normalizeIllumination = TRUE,
                               !.threshold = "cli_threshold",
                               !.despeckleLevel = "cli_despeckle",
                               !.depthPerception = "cli_depth",
                               !.cliDewarping = TRUE]

(* ------------------------------- C27 ------------------------------------ *)

\* C27: in setupSelectContent, when a content-box override is given, every
\* page of the set ends with detection mode MANUAL and the given box, and
\* its target size is the given size when that is non-null and the stored
\* one otherwise; the pages outside the set, and every page when no
\* content-box override is given, keep their content-selection settings.
C27_ContentBoxOverride ==
    [][SetupFilter(selectContentFilterIdx) =>
         \A p \in PageIds :
            LET a == m_ptrStages[1].select_content[p]
                b == m_ptrStages'[1].select_content[p]
            IN  IF cli.hasContentRect /\ p \in PageIdSet(m_ptrPages[1])
                THEN /\ b.mode = "MODE_MANUAL"
                     /\ b.box = cli.contentRect
                     /\ b.targetSize =
                           IF cli.contentSizeMM # "null_size"
                           THEN cli.contentSizeMM ELSE a.targetSize
                ELSE b = a]_vars

\* The content setup has run with a content box and a null size over two
\* pages, the first with stored settings: both hold manual mode and the given
\* box, the first keeps its stored target size and the second its default.
C27_Witness ==
    /\ pc = "ready" /\ "select_content" \in configured
    /\ cli.hasContentRect /\ cli.contentSizeMM = "null_size"
    /\ m_ptrPages = Ptr(PagesUpTo(2))
    /\ m_ptrStages[1].select_content[1] =
          [mode |-> "MODE_MANUAL", box |-> "cli_rect",
           targetSize |-> "file_size"]
    /\ m_ptrStages[1].select_content[2] =
          [mode |-> "MODE_MANUAL", box |-> "cli_rect",
           targetSize |-> "auto_size"]
    /\ m_ptrStages[1].select_content[3].mode = "MODE_AUTO"

=============================================================================
